---------------------------- MODULE Spec2Model ----------------------------
(***************************************************************************)
(* A model of the rex regular-expression engine: the parser (parse.rs),    *)
(* the optimizer (optimize.rs), the compiler to a state graph (compile.rs, *)
(* state.rs), the matchers (matcher.rs) and the simulator (matching.rs).   *)
(*                                                                         *)
(* Characters are one-character strings; a Rust &str or Vec<char> is a     *)
(* sequence of them.  Option<T> is <<>> (None) or <<x>> (Some(x)).         *)
(* Sequences are 1-based here and 0-based in the source: a source          *)
(* position p is element p + 1.                                            *)
(***************************************************************************)
EXTENDS Integers, Sequences, FiniteSets

(***************************************************************************)
(* Bounds of the model.                                                    *)
(***************************************************************************)
\* Every regex source string of at most this many characters is an input.
MaxSrcLen == 2
\* Every subject of at most this many codepoints is an input.
MaxSubjLen == 2
\* A pass is followed at most this many positions past the end of the subject.
PosSlack == 3
\* The subjects of a regex that can repeat without consuming are at most this long.
MaxLoopSubjLen == 0

(***************************************************************************)
(* Characters.                                                             *)
(***************************************************************************)
\* The characters regex sources are drawn from.
RegexAlphabet == {"a", "b", ".", "*", "+", "?", "|", "(", ")", "^", "$"}

\* The codepoints subjects are drawn from: two of one UTF-8 byte, one of two.
SubjAlphabet == {"a", "b", "é"}

\* The Unicode scalar value of a character (char's ordering in CharRangeMatcher).
Ord(c) ==
    CASE c = "$" -> 36 [] c = "(" -> 40 [] c = ")" -> 41 [] c = "*" -> 42
      [] c = "+" -> 43 [] c = "," -> 44 [] c = "-" -> 45 [] c = "." -> 46
      [] c = "0" -> 48 [] c = "1" -> 49 [] c = "2" -> 50 [] c = "3" -> 51
      [] c = "4" -> 52 [] c = "5" -> 53 [] c = "6" -> 54 [] c = "7" -> 55
      [] c = "8" -> 56 [] c = "9" -> 57 [] c = "?" -> 63 [] c = "A" -> 65
      [] c = "B" -> 66 [] c = "Z" -> 90 [] c = "[" -> 91 [] c = "]" -> 93
      [] c = "^" -> 94 [] c = "a" -> 97 [] c = "b" -> 98 [] c = "c" -> 99
      [] c = "d" -> 100 [] c = "e" -> 101 [] c = "x" -> 120 [] c = "z" -> 122
      [] c = "{" -> 123 [] c = "|" -> 124 [] c = "}" -> 125 [] c = "é" -> 233

\* The number of bytes of a character's UTF-8 encoding (what str::len counts).
Utf8Len(c) == IF Ord(c) < 128 THEN 1 ELSE 2

RECURSIVE StrLen(_)
\* str::len: the length of a string in bytes.
StrLen(s) == IF s = <<>> THEN 0 ELSE Utf8Len(Head(s)) + StrLen(Tail(s))

\* The sequences over S of length at most n.
SeqsUpTo(S, n) == UNION {[1..k -> S] : k \in 0..n}

None == <<>>
Some(x) == <<x>>
IsSome(o) == o # <<>>
Unwrap(o) == o[1]

\* s[from..to] of a slice (0-based, to exclusive).
Slice(s, from, to) == SubSeq(s, from + 1, to)

(***************************************************************************)
(* repr: Pattern and Repetition.                                           *)
(***************************************************************************)
Concat(ps) == [t |-> "Concat", ps |-> ps]
Repeated(r) == [t |-> "Repeated", r |-> r]
Submatch(p) == [t |-> "Submatch", p |-> p]
Alternate(ps) == [t |-> "Alternate", ps |-> ps]
Char(c) == [t |-> "Char", c |-> c]
Any == [t |-> "Any"]
Str(s) == [t |-> "Str", s |-> s]
CharRange(lo, hi) == [t |-> "CharRange", lo |-> lo, hi |-> hi]
CharSet(cs) == [t |-> "CharSet", cs |-> cs]
Anchor(loc) == [t |-> "Anchor", loc |-> loc]

ZeroOrOnce(p) == [k |-> "ZeroOrOnce", p |-> p]
ZeroOrMore(p) == [k |-> "ZeroOrMore", p |-> p]
OnceOrMore(p) == [k |-> "OnceOrMore", p |-> p]
Specific(p, min, max) == [k |-> "Specific", p |-> p, min |-> min, max |-> max]

(***************************************************************************)
(* parse.rs.  A parser function returns Ok (a pattern and the rest of the  *)
(* input), Err (the error string: its message, and Some position when the  *)
(* string carries one, else None) or panics.                               *)
(***************************************************************************)
Ok(p, s) == [kind |-> "ok", pat |-> p, rest |-> s]
Err(msg, at) == [kind |-> "err", msg |-> msg, at |-> at]
Panic(msg) == [kind |-> "panic", msg |-> msg]

\* ParseStack::to_retree; the caller has excluded the empty stack, which panics.
to_retree(stack) == IF Len(stack) > 1 THEN Concat(stack) ELSE stack[1]

ParseState_new(src) == [src |-> src, pos |-> 0]
\* A sub-ParseState that counts its position from its own parent only.
ParseState_sub_relative(s, from, to) == [src |-> Slice(s.src, from, to), pos |-> from]
ParseState_sub(s, from, to) == [src |-> Slice(s.src, from, to), pos |-> s.pos + from]
ParseState_from(s, from) == ParseState_sub(s, from, Len(s.src))
ParseState_err(s, msg, i) == Err(msg, Some(s.pos + i))

RECURSIVE find_closing_from(_, _, _, _)
\* The loop of find_closing_paren from index i with the count so far.
find_closing_from(s, parens, i, count) ==
    IF i >= Len(s.src) THEN None
    ELSE LET c == s.src[i + 1]
             n == IF c = parens[1] THEN count + 1
                  ELSE IF c = parens[2] THEN count - 1 ELSE count
         IN IF n = 0 THEN Some(i) ELSE find_closing_from(s, parens, i + 1, n)

find_closing_paren(s, parens) ==
    IF s.src[1] # parens[1] THEN None ELSE find_closing_from(s, parens, 0, 0)

\* None, or Some of <<the bracketed contents, the rest after the closer>>.
split_in_parens(s, parens) ==
    LET end == find_closing_paren(s, parens)
    IN IF IsSome(end)
       THEN Some(<<ParseState_sub(s, 1, Unwrap(end)), ParseState_from(s, Unwrap(end) + 1)>>)
       ELSE None

ROUND_PARENS == <<"(", ")">>
SQUARE_BRACKETS == <<"[", "]">>
CURLY_BRACKETS == <<"{", "}">>

Digits == {"0", "1", "2", "3", "4", "5", "6", "7", "8", "9"}

RECURSIVE DigitsValue(_, _)
DigitsValue(ds, acc) ==
    IF ds = <<>> THEN acc ELSE DigitsValue(Tail(ds), acc * 10 + (Ord(Head(ds)) - 48))

\* u32::from_str: an optional '+', then one or more decimal digits.  Numbers of
\* up to nine digits fit u32; the sources of the model hold none longer.
u32_from_str(cs) ==
    LET ds == IF cs # <<>> /\ Head(cs) = "+" THEN Tail(cs) ELSE cs
    IN IF ds = <<>> \/ \E i \in 1..Len(ds) : ds[i] \notin Digits THEN None
       ELSE IF Len(ds) > 9 THEN None
       ELSE Some(DigitsValue(ds, 0))

RECURSIVE SplitAt(_, _, _)
\* slice::split on c: the pieces between the occurrences of c (never no piece).
SplitAt(cs, c, cur) ==
    IF cs = <<>> THEN <<cur>>
    ELSE IF Head(cs) = c THEN <<cur>> \o SplitAt(Tail(cs), c, <<>>)
    ELSE SplitAt(Tail(cs), c, Append(cur, Head(cs)))

parse_specific_repetition(rep, p) ==
    LET pieces == SplitAt(rep.src, ",", <<>>)
        nparts == IF Len(pieces) >= 2 THEN 2 ELSE Len(pieces)
    IN IF nparts = 0 THEN ParseState_err(rep, "empty {} spec", 0)
       ELSE IF nparts = 1
       THEN LET n == u32_from_str(pieces[1])
            IN IF IsSome(n)
               THEN Ok(Repeated(Specific(p, Unwrap(n), None)), rep)
               ELSE Err("invalid repetition", None)
       ELSE LET p0 == pieces[1]
                p1 == pieces[2]
                n0 == u32_from_str(p0)
                n1 == u32_from_str(p1)
            IN IF p0 # <<>> /\ p1 # <<>>
               THEN IF ~IsSome(n0) \/ ~IsSome(n1) THEN Err("ParseIntError", None)
                    ELSE Ok(Repeated(Specific(p, Unwrap(n0), Some(Unwrap(n1)))), rep)
               ELSE IF p0 = <<>> /\ p1 # <<>>
               THEN IF ~IsSome(n1) THEN Err("ParseIntError", None)
                    ELSE Ok(Repeated(Specific(p, 0, Some(Unwrap(n1)))), rep)
               ELSE IF p0 # <<>> /\ p1 = <<>>
               THEN IF ~IsSome(n0) THEN Err("ParseIntError", None)
                    ELSE Ok(Concat(<<Repeated(Specific(p, Unwrap(n0), None)),
                                     Repeated(ZeroOrMore(p))>>), rep)
               ELSE Err("invalid repetition pattern", None)

RECURSIVE char_set_loop(_, _, _)
\* The loop of parse_char_set: <<ranges, chars>> of the class contents st.
char_set_loop(st, ranges, chars) ==
    IF Len(st) >= 3 /\ st[2] = "-"
    THEN char_set_loop(Slice(st, 3, Len(st)), Append(ranges, CharRange(st[1], st[3])), chars)
    ELSE IF Len(st) > 0
    THEN char_set_loop(Tail(st), ranges, Append(chars, st[1]))
    ELSE <<ranges, chars>>

parse_char_set(s) ==
    LET sp == split_in_parens(s, SQUARE_BRACKETS)
    IN IF IsSome(sp)
       THEN LET rc == char_set_loop(Unwrap(sp)[1].src, <<>>, <<>>)
                chars == rc[2]
                ranges == IF Len(chars) = 1 THEN Append(rc[1], Char(chars[1]))
                          ELSE IF chars # <<>> THEN Append(rc[1], CharSet(chars))
                          ELSE rc[1]
            IN IF Len(ranges) = 1 THEN Ok(ranges[1], Unwrap(sp)[2])
               ELSE Ok(Alternate(ranges), Unwrap(sp)[2])
       ELSE ParseState_err(s, "unmatched [", Len(s.src))

RECURSIVE parse_re_loop(_, _)
\* The loop of parse_re from state s with the stack of patterns parsed so far.
parse_re_loop(s, stack) ==
    IF Len(s.src) = 0
    THEN IF stack = <<>> THEN Panic("empty stack") ELSE Ok(to_retree(stack), s)
    ELSE LET c == s.src[1] IN
      CASE c = "." -> parse_re_loop(ParseState_from(s, 1), Append(stack, Any))
        [] c = "$" ->
             parse_re_loop(ParseState_from(s, 1),
                 Append(stack, IF Len(s.src) = 1 THEN Anchor("End") ELSE Char("$")))
        [] c = "^" ->
             parse_re_loop(ParseState_from(s, 1),
                 Append(stack, IF s.pos = 0 THEN Anchor("Begin") ELSE Char("^")))
        [] c \in {"+", "*", "?"} ->
             IF stack # <<>>
             THEN LET p == stack[Len(stack)]
                      rep == CASE c = "+" -> OnceOrMore(p)
                               [] c = "*" -> ZeroOrMore(p)
                               [] c = "?" -> ZeroOrOnce(p)
                  IN parse_re_loop(ParseState_from(s, 1),
                         Append(SubSeq(stack, 1, Len(stack) - 1), Repeated(rep)))
             ELSE ParseState_err(s, "+ without pattern to repeat", 0)
        [] c = "|" ->
             LET r == parse_re_loop(ParseState_from(s, 1), <<>>)
             IN IF r.kind # "ok" THEN r
                ELSE IF stack = <<>> THEN Panic("empty stack")
                ELSE parse_re_loop(r.rest, <<Alternate(<<to_retree(stack), r.pat>>)>>)
        [] c = "(" ->
             LET sp == split_in_parens(s, ROUND_PARENS)
             IN IF IsSome(sp)
                THEN LET r == parse_re_loop(Unwrap(sp)[1], <<>>)
                     IN IF r.kind # "ok" THEN r
                        ELSE IF Len(r.rest.src) # 0 THEN Panic("assertion failed")
                        ELSE parse_re_loop(Unwrap(sp)[2], Append(stack, Submatch(r.pat)))
                ELSE ParseState_err(s, "unmatched (", Len(s.src))
        [] c = ")" -> ParseState_err(s, "unopened ')'", 0)
        [] c = "[" ->
             LET r == parse_char_set(s)
             IN IF r.kind # "ok" THEN r
                ELSE parse_re_loop(r.rest, Append(stack, r.pat))
        [] c = "]" -> ParseState_err(s, "unopened ']'", 0)
        [] c = "{" ->
             LET sp == split_in_parens(s, CURLY_BRACKETS)
             IN IF IsSome(sp)
                THEN IF stack # <<>>
                     THEN LET r == parse_specific_repetition(Unwrap(sp)[1],
                                                             stack[Len(stack)])
                          IN IF r.kind # "ok" THEN r
                             ELSE parse_re_loop(Unwrap(sp)[2],
                                      Append(SubSeq(stack, 1, Len(stack) - 1), r.pat))
                     ELSE ParseState_err(s, "repetition {} without pattern to repeat", 0)
                ELSE ParseState_err(s, "unmatched {", Len(s.src))
        [] OTHER -> parse_re_loop(ParseState_from(s, 1), Append(stack, Char(c)))

parse_re(s) == parse_re_loop(s, <<>>)

\* parse: the pattern of a source string, an error, or a panic.
parse(src) == parse_re(ParseState_new(src))

(***************************************************************************)
(* optimize.rs.                                                            *)
(***************************************************************************)
\* The merged run of chars as a pattern: nothing, a Char or a Str.
FlushChars(chars) ==
    IF Len(chars) = 1 THEN <<Char(chars[1])>>
    ELSE IF Len(chars) > 1 THEN <<Str(chars)>>
    ELSE <<>>

RECURSIVE concat_chars_loop(_, _, _)
\* The loop of concat_chars_to_str over the children v of a Concat.
concat_chars_loop(v, new_elems, chars) ==
    IF v = <<>> THEN new_elems \o FlushChars(chars)
    ELSE LET cp == Head(v) IN
         IF cp.t = "Char" THEN concat_chars_loop(Tail(v), new_elems, Append(chars, cp.c))
         ELSE IF cp.t = "Str" THEN concat_chars_loop(Tail(v), new_elems, chars \o cp.s)
         ELSE concat_chars_loop(Tail(v), (new_elems \o FlushChars(chars)) \o <<cp>>, <<>>)

concat_chars_to_str(p) ==
    IF p.t = "Concat"
    THEN LET new_elems == concat_chars_loop(p.ps, <<>>, <<>>)
         IN IF Len(new_elems) = 1 THEN new_elems[1] ELSE Concat(new_elems)
    ELSE p

RECURSIVE splice_alternatives(_)
\* The alternatives a with the children of those that are Alternates in their place.
splice_alternatives(a) ==
    IF a = <<>> THEN <<>>
    ELSE (IF Head(a).t = "Alternate" THEN Head(a).ps ELSE <<Head(a)>>)
         \o splice_alternatives(Tail(a))

\* The alternatives of p with one level of nesting removed.
flatten_alternate_once(p) ==
    IF p.t = "Alternate" THEN splice_alternatives(p.ps) ELSE <<p>>

RECURSIVE flatten_alternate_rec(_)
RECURSIVE flatten_alternatives(_)
\* _flatten_alternate: the alternatives of p with nested Alternates spliced in.
flatten_alternate_rec(p) ==
    IF p.t = "Alternate" THEN flatten_alternatives(p.ps) ELSE <<p>>

flatten_alternatives(a) ==
    IF a = <<>> THEN <<>>
    ELSE flatten_alternate_rec(Head(a)) \o flatten_alternatives(Tail(a))

flatten_alternate(p) ==
    LET fa == flatten_alternate_rec(p)
    IN IF Len(fa) = 1 THEN fa[1] ELSE Alternate(fa)

RECURSIVE optimize(_)
RECURSIVE optimize_recursively(_)
optimize_recursively(p) ==
    CASE p.t = "Concat" -> Concat([i \in 1..Len(p.ps) |-> optimize(p.ps[i])])
      [] p.t = "Submatch" -> Submatch(optimize(p.p))
      [] p.t = "Alternate" -> Alternate([i \in 1..Len(p.ps) |-> optimize(p.ps[i])])
      [] p.t = "Repeated" -> Repeated([p.r EXCEPT !.p = optimize(p.r.p)])
      [] OTHER -> p

optimize(p) == optimize_recursively(flatten_alternate(concat_chars_to_str(p)))

(***************************************************************************)
(* state.rs and compile.rs.  A StateGraph is a sequence of State records;  *)
(* a StateRef n (0-based, as in the source) is element n + 1.              *)
(***************************************************************************)
State(out, out1, matcher, sub) ==
    [out |-> out, out1 |-> out1, matcher |-> matcher, sub |-> sub]

CharMatcher(c) == [m |-> "Char", c |-> c]
StringMatcher(s) == [m |-> "Str", s |-> s]
CharRangeMatcher(lo, hi) == [m |-> "CharRange", lo |-> lo, hi |-> hi]
CharSetMatcher(cs) == [m |-> "CharSet", cs |-> cs]
AnyMatcher == [m |-> "Any"]
AnchorMatcher(loc) == [m |-> "Anchor", loc |-> loc]

\* A patch that always sets the first successor.
patch_overwrite(st, next) == [st EXCEPT !.out = Some(next)]

\* State::patch can be applied: one of the two successors is still unset.
CanPatch(st) == st.out = None \/ st.out1 = None

\* State::patch, where it does not hit unimplemented!().
patch(st, next) ==
    IF st.out = None THEN [st EXCEPT !.out = Some(next)]
    ELSE [st EXCEPT !.out1 = Some(next)]

\* The result of a compile step: the graph, the entry and the loose ends, or the
\* reason the compiler aborted.
Compiled(sg, s, sp) == [abort |-> "", sg |-> sg, s |-> s, sp |-> sp]
Aborted(msg) == [abort |-> msg, sg |-> <<>>, s |-> 0, sp |-> <<>>]

\* The loose ends left as they are.
patch_all_none(sg, sp, next) == sg

RECURSIVE patch_all(_, _, _)
\* `for p in sp { sg[p].patch(next) }`: the patched graph, or <<>> when a patch
\* finds both successors set (a graph is never empty).
patch_all(sg, sp, next) ==
    IF sp = <<>> THEN sg
    ELSE IF ~CanPatch(sg[Head(sp) + 1]) THEN <<>>
    ELSE patch_all([sg EXCEPT ![Head(sp) + 1] = patch(@, next)], Tail(sp), next)

\* A pattern that compiles to one matcher node.
Leaf(sg, matcher) ==
    Compiled(Append(sg, State(None, None, Some(matcher), None)), Len(sg), <<Len(sg)>>)

\* n copies of x.
Copies(n, x) == [i \in 1..n |-> x]

\* A Specific repetition without a maximum taken as exactly min copies.
SpecificTail_exact(rep) ==
    IF IsSome(rep.max)
    THEN Copies(Unwrap(rep.max) - rep.min, Repeated(ZeroOrOnce(rep.p)))
    ELSE <<>>

\* What follows the min copies of a Specific repetition: max - min optional
\* copies, or without a maximum a ZeroOrMore of the pattern.
SpecificTail(rep) ==
    IF IsSome(rep.max)
    THEN Copies(Unwrap(rep.max) - rep.min, Repeated(ZeroOrOnce(rep.p)))
    ELSE <<Repeated(ZeroOrMore(rep.p))>>

RECURSIVE to_state(_, _)
RECURSIVE concat_to_state(_, _, _, _, _)
RECURSIVE alternate(_, _, _)
RECURSIVE repetition_to_state(_, _)

\* The loop of the Concat case from child i on: init is the entry of the first
\* child and lastp the loose ends of the previous one.
concat_to_state(sg, ps, i, init, lastp) ==
    IF i > Len(ps) THEN Compiled(sg, init, lastp)
    ELSE LET r == to_state(ps[i], sg) IN
         IF r.abort # "" THEN r
         ELSE LET patched == patch_all(r.sg, lastp, r.s) IN
              IF patched = <<>> THEN Aborted("not implemented")
              ELSE concat_to_state(patched, ps, i + 1, init, r.sp)

\* Compile for Pattern.
to_state(p, sg) ==
    CASE p.t = "Concat" ->
           IF p.ps = <<>> THEN Aborted("invalid Concat len: 0")
           ELSE IF Len(p.ps) = 1 THEN to_state(p.ps[1], sg)
           ELSE LET r == to_state(p.ps[1], sg) IN
                IF r.abort # "" THEN r
                ELSE concat_to_state(r.sg, p.ps, 2, r.s, r.sp)
      [] p.t = "Any" -> Leaf(sg, AnyMatcher)
      [] p.t = "Char" -> Leaf(sg, CharMatcher(p.c))
      [] p.t = "Str" -> Leaf(sg, StringMatcher(p.s))
      [] p.t = "CharRange" -> Leaf(sg, CharRangeMatcher(p.lo, p.hi))
      [] p.t = "CharSet" -> Leaf(sg, CharSetMatcher(p.cs))
      [] p.t = "Alternate" -> alternate(sg, p.ps, <<>>)
      [] p.t = "Submatch" ->
           LET r == to_state(p.p, sg) IN
           IF r.abort # "" THEN r
           ELSE LET beforeref == Len(r.sg)
                    afterref == beforeref + 1
                    before == State(Some(r.s), None, None, Some("Start"))
                    after == State(None, None, None, Some("End"))
                    patched == patch_all(r.sg \o <<before, after>>, r.sp, afterref)
                IN IF patched = <<>> THEN Aborted("not implemented")
                   ELSE Compiled(patched, beforeref, <<afterref>>)
      [] p.t = "Repeated" -> repetition_to_state(p.r, sg)
      [] p.t = "Anchor" -> Leaf(sg, AnchorMatcher(p.loc))

\* alternate: with no pattern at all the function calls itself on the same empty
\* list without end, which overflows the stack.
alternate(sg, ps, to_patch) ==
    IF Len(ps) = 1
    THEN LET r == to_state(ps[1], sg) IN
         IF r.abort # "" THEN r
         ELSE LET patched == patch_all(r.sg, to_patch, r.s) IN
              IF patched = <<>> THEN Aborted("not implemented")
              ELSE Compiled(patched, r.s, r.sp)
    ELSE IF Len(ps) = 0 THEN Aborted("stack overflow")
    ELSE LET mid == Len(ps) \div 2
             l == alternate(sg, SubSeq(ps, 1, mid), <<>>)
         IN IF l.abort # "" THEN l
            ELSE LET r == alternate(l.sg, SubSeq(ps, mid + 1, Len(ps)), <<>>) IN
                 IF r.abort # "" THEN r
                 ELSE Compiled(Append(r.sg, State(Some(l.s), Some(r.s), None, None)),
                               Len(r.sg), l.sp \o r.sp)

\* Compile for Repetition.
repetition_to_state(rep, sg) ==
    CASE rep.k = "ZeroOrOnce" ->
           LET r == to_state(rep.p, sg) IN
           IF r.abort # "" THEN r
           ELSE LET afterref == Len(r.sg)
                    beforeref == afterref + 1
                    after == State(None, None, None, None)
                    before == State(Some(r.s), Some(afterref), None, None)
                    patched == patch_all(r.sg \o <<after, before>>, r.sp, afterref)
                IN IF patched = <<>> THEN Aborted("not implemented")
                   ELSE Compiled(patched, beforeref, <<afterref>>)
      [] rep.k = "ZeroOrMore" ->
           LET r == to_state(rep.p, sg) IN
           IF r.abort # "" THEN r
           ELSE LET beforeref == Len(r.sg)
                    afterref == beforeref + 1
                    before == patch(State(Some(r.s), None, None, None), afterref)
                    after == State(Some(r.s), None, None, None)
                    patched == patch_all(r.sg \o <<before, after>>, r.sp, afterref)
                IN IF patched = <<>> THEN Aborted("not implemented")
                   ELSE Compiled(patched, beforeref, <<afterref>>)
      [] rep.k = "OnceOrMore" ->
           LET r == to_state(rep.p, sg) IN
           IF r.abort # "" THEN r
           ELSE LET afterref == Len(r.sg)
                    after == State(Some(r.s), None, None, None)
                    patched == patch_all(Append(r.sg, after), r.sp, afterref)
                IN IF patched = <<>> THEN Aborted("not implemented")
                   ELSE Compiled(patched, r.s, <<afterref>>)
      [] rep.k = "Specific" ->
           LET cap == IF IsSome(rep.max) THEN Unwrap(rep.max) ELSE rep.min IN
           IF ~(cap >= rep.min) THEN Aborted("assertion failed: cap >= min")
           ELSE to_state(Concat(Copies(rep.min, rep.p) \o SpecificTail(rep)), sg)

\* start_compile: the graph of a pattern between the outer submatch nodes.
start_compile(re) ==
    LET before == State(None, None, None, Some("Start"))
        r == to_state(re, <<before>>)
    IN IF r.abort # "" THEN r
       ELSE LET endref == Len(r.sg)
                end == State(None, None, None, Some("End"))
                sg1 == [r.sg EXCEPT ![1].out = Some(r.s)]
                patched == patch_all(Append(sg1, end), r.sp, endref)
            IN IF patched = <<>> THEN Aborted("not implemented")
               ELSE Compiled(patched, 0, <<>>)

(***************************************************************************)
(* matcher.rs.  A Matchee is the subject (a Vec<char>) and the index ix.   *)
(* A matcher returns (matched, consumed), or panics in Matchee::current    *)
(* when it indexes the subject out of bounds.                              *)
(***************************************************************************)
Matched(ok, n) == [panic |-> FALSE, ok |-> ok, n |-> n]
MatcherPanic == [panic |-> TRUE, ok |-> FALSE, n |-> 0]

\* A Matchee that never reports its end.
finished_never(src, ix) == FALSE

\* Matchee::finished
finished(src, ix) == ix = Len(src)

\* Matchee::current is defined: the index is within the subject.
CurrentInBounds(src, ix) == ix < Len(src)

\* Matchee::current, where the index is within the subject.
current(src, ix) == src[ix + 1]

\* The test a one-character matcher applies to m.current().
CharTest(mt, c) ==
    CASE mt.m = "Char" -> c = mt.c
      [] mt.m = "CharRange" -> Ord(c) >= Ord(mt.lo) /\ Ord(c) <= Ord(mt.hi)
      [] mt.m = "CharSet" -> \E k \in 1..Len(mt.cs) : mt.cs[k] = c

\* `!m.finished() && test(m.current())` of the one-character matchers.
OneChar(mt, src, ix) ==
    IF finished(src, ix) THEN Matched(FALSE, 1)
    ELSE IF ~CurrentInBounds(src, ix) THEN MatcherPanic
    ELSE Matched(CharTest(mt, current(src, ix)), 1)

\* AnyMatcher::matches
AnyMatches(src, ix) == Matched(TRUE, 1)

\* Matcher::matches of each of the matchers.
matcher_matches(mt, src, ix) ==
    CASE mt.m \in {"Char", "CharRange", "CharSet"} -> OneChar(mt, src, ix)
      [] mt.m = "Str" ->
           IF ix + Len(mt.s) <= Len(src)
           THEN Matched(Slice(src, ix, ix + Len(mt.s)) = mt.s, Len(mt.s))
           ELSE Matched(FALSE, Len(mt.s))
      [] mt.m = "Any" -> AnyMatches(src, ix)
      [] mt.m = "Anchor" ->
           IF mt.loc = "Begin" THEN Matched(ix = 0, 0) ELSE Matched(finished(src, ix), 0)

(***************************************************************************)
(* The inputs.                                                             *)
(***************************************************************************)
\* Regex sources whose graph has a cycle that consumes nothing, or that consumes
\* without bound past the end of the subject.
LoopSources ==
    { <<"a", "*", "*">>,
      <<"a", "?", "*">>,
      <<"a", "*", "+">>,
      <<"(", "a", "*", ")", "*">>,
      <<".", "*">>,
      <<"^", "*">>,
      <<"$", "+">>,
      <<".", "?", "+">> }

\* Regex sources of the test suite (tests.rs, parse.rs) and of its kind, longer
\* than MaxSrcLen.
TestSources ==
    { <<"a", "a", "(", "a", "+", ")">>,
      <<"a", "a", "a", "+">>,
      <<"a", "a", "+", "$">>,
      <<"a", "(", "b", ")", "c">>,
      <<"a", "(", ".", ")", "c">>,
      <<"a", "(", "b", "(", ".", ")", ")">>,
      <<"a", "(", ".", ")">>,
      <<"a", "(", "b", ")">>,
      <<"a", "(", "b", "?", ")", ".">>,
      <<"(", "a", ")", "a", "b">>,
      <<"(", "a", ")", "a", "(", "b", ")">>,
      <<"a", "[", "a", "b", "]">>,
      <<"[", "a", "-", "b", "]", "b">>,
      <<"a", "|", "b", "a", "|", "b">>,
      <<"(", "a", "+", "a", "+", ")", "+", "b">>,
      <<"a", "{", "1", ",", "3", "}">>,
      <<"a", "{", "1", ",", "2", "}", "$">>,
      <<"^", "a", "{", "1", ",", "2", "}", "$">>,
      <<"a", "{", ",", "2", "}">>,
      <<"a", "{", "0", ",", "2", "}">>,
      <<"a", "{", "2", ",", "3", "}">>,
      <<"a", "b", "{", "1", ",", "2", "}">>,
      <<"(", "a", "b", ")", "{", "1", ",", "2", "}">>,
      <<"a", "{", "2", "}">>,
      <<"a", "{", "2", ",", "}">>,
      <<"a", "{", ",", "0", "}">>,
      <<"a", "{", "0", ",", "0", "}">>,
      <<"a", "{", "3", ",", "1", "}">>,
      <<"a", "{", "}">>,
      <<"[", "]">>,
      <<"a", "c", ")", "d">>,
      <<"(", "a", "c", ")", "d", ")">>,
      <<"[", "a", "c", "]", "d", "]">>,
      <<".", "a", "|", "b">>,
      <<".", ".", "a">>,
      <<"a", "|", "b">>,
      <<"(", "a", ")">>,
      <<"(", "a", "|", "b", ")", "*", "b">>,
      <<"a", "*", "b">>,
      <<"^", "a", "$">>,
      <<"a", "{", "0", "}">>,
      <<"a", "b", "{", "1", "}">>,
      <<"b", "a", "{", "1", ",", "}">>,
      <<"(", "a", "c", ")", "d", "]">>,
      <<"(", "a", "]", ")">>,
      <<"(", "a", ")", "(", "b", "]", ")">>,
      <<"a", "|", "b", ")">>,
      <<"a", "|", "(", "b", ")", "]">>,
      <<"a", "?", "(", "a", "?", ")">>,
      <<"a", "|", "a">>,
      <<"(", "a", ")", "|", "a">>,
      <<"a", "(", "b", ")", "c", "|", "a", "b", "b", "?", "b", "?">>,
      <<"(", "a", "$", ")">>,
      <<"(", "a", "$", ")", "b">>,
      <<"(", "^", "a", ")">>,
      <<"a", "|", "b", "|", "a", "|", "b">>,
      <<"b", "?", "|", "a", "(", "b", ")", "c", "|", "(", "c", "?", ")">> } \cup LoopSources

Sources == SeqsUpTo(RegexAlphabet, MaxSrcLen) \cup TestSources

\* Subjects longer than MaxSubjLen.
TestSubjects ==
    { <<"a", "a", "b">>, <<"a", "a", "a">>, <<"a", "b", "a">>, <<"a", "a", "a", "b">> }

Subjects == SeqsUpTo(SubjAlphabet, MaxSubjLen) \cup TestSubjects

RECURSIVE Skippable(_)
\* The pattern can be passed without a Char, Str, CharRange or CharSet matching.
Skippable(p) ==
    CASE p.t \in {"Char", "Str", "CharRange", "CharSet"} -> FALSE
      [] p.t \in {"Any", "Anchor"} -> TRUE
      [] p.t = "Concat" -> \A k \in 1..Len(p.ps) : Skippable(p.ps[k])
      [] p.t = "Alternate" -> \E k \in 1..Len(p.ps) : Skippable(p.ps[k])
      [] p.t = "Submatch" -> Skippable(p.p)
      [] p.t = "Repeated" ->
           \/ p.r.k \in {"ZeroOrOnce", "ZeroOrMore"}
           \/ p.r.k = "Specific" /\ p.r.min = 0
           \/ Skippable(p.r.p)

RECURSIVE FreeLoop(_)
\* The pattern holds an unbounded repetition of a Skippable pattern: its graph
\* has a cycle that no Char, Str, CharRange or CharSet node guards.
FreeLoop(p) ==
    CASE p.t \in {"Concat", "Alternate"} -> \E k \in 1..Len(p.ps) : FreeLoop(p.ps[k])
      [] p.t = "Submatch" -> FreeLoop(p.p)
      [] p.t = "Repeated" ->
           \/ FreeLoop(p.r.p)
           \/ /\ \/ p.r.k \in {"ZeroOrMore", "OnceOrMore"}
                 \/ p.r.k = "Specific" /\ p.r.max = None
              /\ Skippable(p.r.p)
      [] OTHER -> FALSE

\* The subjects a compiled pattern is matched against: every subject, except
\* that a pattern with a free loop, whose passes need not end, is matched only
\* if its source is one of LoopSources, and then against the short subjects.
SubjectsOf(source, p) ==
    IF ~FreeLoop(p) THEN Subjects
    ELSE IF source \in LoopSources THEN {s \in Subjects : Len(s) <= MaxLoopSubjLen}
    ELSE {}

(***************************************************************************)
(* matching.rs: do_match and start_match as a state machine.               *)
(***************************************************************************)
VARIABLES
    pc,          \* where the program is: "parse", "optimize", "compile", "ready"
                 \* (compiled, do_match not yet called), "pass" (in start_match),
                 \* "done" (do_match returned), "parse_error" (parse returned
                 \* Err), "parse_panic", "compile_panic", "match_panic" (the
                 \* program aborted in parse, in start_compile, in do_match)
    src,         \* the regex source
    ast,         \* parse's result
    re,          \* the pattern handed to the compiler
    sg,          \* the state graph
    subj,        \* the subject, a Vec<char>
    i,           \* do_match: the start position of the pass
    states_map,  \* start_match: the live states of the round not yet drained
    states_map_next,  \* start_match: the states scheduled for the next round
    submatches,  \* the Vec behind the Rc<RefCell<..>> that reset() allocated for
                 \* the pass; every MatchState of the pass is a clone of the one
                 \* start_match got, so all hold an Rc to this one Vec
    ismatch, matches, longestmatch, longest_partial_match,  \* start_match's locals
    result,      \* do_match's return value
    capped,      \* a position of the pass was cut at PosCap
    call,        \* which call of the caller this is: "first" (match_re_str on src),
                 \* "unoptimized" (compile_and_match on parse's output, same
                 \* subject), "open_ended" (match_re_str on OpenEnded(src), same
                 \* subject) or "repeated" (match_re on the same graph and
                 \* subject)
    earlier,     \* the return value of the first call, once a second one is made
    drained,     \* history: the keys of the states the drain loop has taken out
                 \* of states_map so far in this pass
    passes       \* history: the number of passes this do_match has started

vars == <<pc, src, ast, re, sg, subj, i, states_map, states_map_next, submatches,
          ismatch, matches, longestmatch, longest_partial_match, result, capped,
          call, earlier, drained, passes>>

\* The furthest position the model follows a pass to.
PosCap == StrLen(subj) + PosSlack

\* A live MatchState: its node, Matchee position and pending submatch starts.
MatchState(node, pos, todo) == [node |-> node, pos |-> pos, todo |-> todo]

state_key(m) == <<m.pos, m.node>>

\* An insert that replaces the state the map holds under the key.
or_insert_replace(map, m) == {x \in map : state_key(x) # state_key(m)} \cup {m}

\* HashMap::entry(state_key(m)).or_insert(m)
or_insert(map, m) ==
    IF \E x \in map : state_key(x) = state_key(m) THEN map ELSE map \cup {m}

\* The condition of do_match's loop.
LoopCond(start, len) == start < len \/ start = 0

\* The position do_match tries next after a pass from start failed with skip.
NextStart(start, skip) == skip + 1

\* MatchState::start_submatch: the list of pending starts afterwards.
start_submatch(m) == IF m.pos < Len(subj) THEN Append(m.todo, m.pos) ELSE m.todo

\* The capture Vec after MatchState::stop_submatch (begin is in bounds).
stop_submatch(caps, begin, pos) == [caps EXCEPT ![begin + 1] = Some(pos)]

\* matchst.fork(next, advance) and matchst.update(next, advance).
Advance(m, todo, next, advance) ==
    MatchState(next, IF m.pos + advance > PosCap THEN PosCap ELSE m.pos + advance, todo)

\* The test `pos > longestmatch || longestmatch == 0` of start_match.
IsLonger(pos, longest) == pos > longest \/ longest = 0

\* The (start, end) pairs of the capture Vec from the last index down.
RECURSIVE Flatten_backwards(_, _)
Flatten_backwards(caps, k) ==
    IF k > Len(caps) THEN <<>>
    ELSE Flatten_backwards(caps, k + 1)
         \o (IF IsSome(caps[k]) THEN <<<<k - 1, Unwrap(caps[k])>>>> ELSE <<>>)

\* do_match: the (start, end) pairs of the capture Vec, in index order.
RECURSIVE Flatten(_, _)
Flatten(caps, k) ==
    IF k > Len(caps) THEN <<>>
    ELSE (IF IsSome(caps[k]) THEN <<<<k - 1, Unwrap(caps[k])>>>> ELSE <<>>)
         \o Flatten(caps, k + 1)

NoResult == [matched |-> FALSE, list |-> <<>>]

Init ==
    /\ pc = "parse"
    /\ src \in Sources
    /\ ast = None /\ re = None /\ sg = <<>> /\ subj = <<>>
    /\ i = 0
    /\ states_map = {} /\ states_map_next = {}
    /\ submatches = <<>>
    /\ ismatch = FALSE /\ matches = <<>>
    /\ longestmatch = 0 /\ longest_partial_match = 0
    /\ result = NoResult
    /\ capped = FALSE
    /\ call = "first"
    /\ earlier = None
    /\ drained = {}
    /\ passes = 0

callVars == <<call, earlier>>

matchVars == <<subj, i, states_map, states_map_next, submatches, ismatch, matches,
               longestmatch, longest_partial_match, result, capped, drained, passes>>

\* parse::parse(re)
Parse ==
    /\ pc = "parse"
    /\ LET r == parse(src) IN
         /\ ast' = r
         /\ pc' = CASE r.kind = "ok" -> "optimize"
                    [] r.kind = "err" -> "parse_error"
                    [] r.kind = "panic" -> "parse_panic"
    /\ UNCHANGED <<src, re, sg>>
    /\ UNCHANGED matchVars
    /\ UNCHANGED callVars

\* optimize::optimize(..)
Optimize ==
    /\ pc = "optimize"
    /\ re' = optimize(ast.pat)
    /\ pc' = "compile"
    /\ UNCHANGED <<src, ast, sg>>
    /\ UNCHANGED matchVars
    /\ UNCHANGED callVars

\* compile::start_compile(..)
Compile ==
    /\ pc = "compile"
    /\ LET r == start_compile(re) IN
         /\ sg' = r.sg
         /\ pc' = IF r.abort = "" THEN "ready" ELSE "compile_panic"
    /\ UNCHANGED <<src, ast, re>>
    /\ UNCHANGED matchVars
    /\ UNCHANGED callVars

\* The variables as reset(start) and the head of start_match leave them.
BeginPass(start) ==
    /\ i' = start
    /\ states_map' = {MatchState(0, start, <<>>)}
    /\ states_map_next' = {}
    /\ submatches' = [k \in 1..Len(subj') |-> None]
    /\ ismatch' = FALSE /\ matches' = <<>>
    /\ longestmatch' = 0 /\ longest_partial_match' = 0
    /\ capped' = FALSE
    /\ drained' = {}
    /\ passes' = IF start = 0 THEN 1 ELSE passes + 1

\* do_match(sg, s) is called and enters its first pass.
DoMatch(s) ==
    /\ pc = "ready"
    /\ s \in SubjectsOf(src, re)
    /\ subj' = s
    /\ pc' = "pass"
    /\ BeginPass(0)
    /\ UNCHANGED <<src, ast, re, sg, result>>
    /\ UNCHANGED callVars

\* The body of `for (_, mut matchst) in states_map.drain()` for the state m, in
\* whatever order the HashMap yields it; after the last state of the round, the
\* swap of the two maps.
Step(m) ==
    /\ pc = "pass"
    /\ m \in states_map
    /\ LET node == sg[m.node + 1]
           next1 == node.out
           next2 == node.out1
           isStart == node.sub = Some("Start")
           isEnd == node.sub = Some("End") /\ m.todo # <<>>
           begin == m.todo[Len(m.todo)]
           todo == IF isStart THEN start_submatch(m)
                   ELSE IF isEnd THEN SubSeq(m.todo, 1, Len(m.todo) - 1)
                   ELSE m.todo
           badIndex == isEnd /\ ~(begin < Len(submatches))
           caps == IF isEnd /\ ~badIndex THEN stop_submatch(submatches, begin, m.pos)
                   ELSE submatches
           found == next1 = None /\ next2 = None /\ IsLonger(m.pos, longestmatch)
           mr == IF IsSome(node.matcher) THEN matcher_matches(Unwrap(node.matcher), subj, m.pos)
                 ELSE Matched(TRUE, 0)
           advance_by == mr.n
           first == IF IsSome(next1) THEN {Advance(m, todo, Unwrap(next1), advance_by)}
                    ELSE {}
           second == IF IsSome(next2) THEN Advance(m, todo, Unwrap(next2), advance_by)
                     ELSE None
           scheduled == IF IsSome(next1) /\ IsSome(next2)
                        THEN or_insert(or_insert(states_map_next, CHOOSE x \in first : TRUE),
                                       second)
                        ELSE IF IsSome(next1)
                        THEN or_insert(states_map_next, CHOOSE x \in first : TRUE)
                        ELSE IF IsSome(next2) THEN or_insert(states_map_next, second)
                        ELSE states_map_next
           next == IF found \/ ~mr.ok THEN states_map_next ELSE scheduled
           rest == states_map \ {m}
       IN IF badIndex \/ (~found /\ mr.panic)
          THEN /\ pc' = "match_panic"
               /\ UNCHANGED <<states_map, states_map_next, submatches, ismatch, matches,
                              longestmatch, longest_partial_match, capped, drained>>
          ELSE /\ pc' = "pass"
               /\ drained' = drained \cup {state_key(m)}
               /\ submatches' = caps
               /\ ismatch' = (ismatch \/ found)
               /\ matches' = IF found THEN caps ELSE matches
               /\ longestmatch' = IF found THEN m.pos ELSE longestmatch
               /\ longest_partial_match' =
                      IF ~found /\ m.pos > longest_partial_match THEN m.pos
                      ELSE longest_partial_match
               /\ capped' = (capped \/ (~found /\ mr.ok /\ (IsSome(next1) \/ IsSome(next2))
                                         /\ m.pos + advance_by > PosCap))
               /\ IF rest = {}
                  THEN states_map' = next /\ states_map_next' = {}
                  ELSE states_map' = rest /\ states_map_next' = next
    /\ UNCHANGED <<src, ast, re, sg, subj, i, result, passes>>
    /\ UNCHANGED callVars

\* start_match finds states_map empty and returns; do_match returns the match, or
\* goes on to the pass from the next start position, or returns (false, []).
PassEnd ==
    /\ pc = "pass"
    /\ states_map = {}
    /\ IF ismatch
       THEN /\ result' = [matched |-> TRUE, list |-> Flatten(matches, 1)]
            /\ pc' = "done"
            /\ UNCHANGED <<subj, i, states_map, states_map_next, submatches, ismatch,
                           matches, longestmatch, longest_partial_match, capped, drained,
                           passes>>
       ELSE IF LoopCond(NextStart(i, longest_partial_match), StrLen(subj))
       THEN /\ pc' = "pass"
            /\ UNCHANGED <<subj, result>>
            /\ BeginPass(NextStart(i, longest_partial_match))
       ELSE /\ result' = NoResult
            /\ pc' = "done"
            /\ UNCHANGED <<subj, i, states_map, states_map_next, submatches, ismatch,
                           matches, longestmatch, longest_partial_match, capped, drained,
                           passes>>
    /\ UNCHANGED <<src, ast, re, sg>>
    /\ UNCHANGED callVars

\* The caller's next call, on the subject of the first one: start_compile(p), then
\* do_match up to the head of its first pass.
MatchAgain(p) ==
    /\ earlier' = Some(result)
    /\ re' = p
    /\ result' = NoResult
    /\ LET r == start_compile(p) IN
         /\ sg' = r.sg
         /\ IF r.abort = ""
            THEN pc' = "pass" /\ UNCHANGED subj /\ BeginPass(0)
            ELSE /\ pc' = "compile_panic"
                 /\ UNCHANGED <<subj, i, states_map, states_map_next, submatches,
                                ismatch, matches, longestmatch, longest_partial_match,
                                capped, drained, passes>>

\* compile_and_match(&parse(src)?, s) after match_re_str(src, s): the pattern is
\* compiled as the parser returned it.  Taken when optimize changed the pattern.
MatchUnoptimized ==
    /\ pc = "done" /\ call = "first"
    /\ re # ast.pat
    /\ call' = "unoptimized"
    /\ MatchAgain(ast.pat)
    /\ UNCHANGED <<src, ast>>

\* The source "P{n}" written as "P{n,}".
OpenEnded(source) == SubSeq(source, 1, Len(source) - 1) \o <<",", "}">>

\* The source ends in a repetition of the form {n}.
IsExactCount(source) ==
    /\ Len(source) >= 4
    /\ source[Len(source)] = "}"
    /\ \E k \in 2..(Len(source) - 2) :
          /\ source[k] = "{"
          /\ \A j \in (k + 1)..(Len(source) - 1) : source[j] \in Digits

\* match_re_str(OpenEnded(src), s) after match_re_str(src, s).
MatchOpenEnded ==
    /\ pc = "done" /\ call = "first"
    /\ IsExactCount(src)
    /\ LET r == parse(OpenEnded(src)) IN
         /\ r.kind = "ok"
         /\ src' = OpenEnded(src)
         /\ ast' = r
         /\ call' = "open_ended"
         /\ MatchAgain(optimize(r.pat))

\* match_re(&compiled, s) called once more on the graph and subject of the call
\* that returned: its rounds drain a new HashMap, in an order of its own.
MatchRepeated ==
    /\ pc = "done" /\ call = "first"
    /\ call' = "repeated"
    /\ MatchAgain(re)
    /\ UNCHANGED <<src, ast>>

Next ==
    \/ Parse
    \/ Optimize
    \/ Compile
    \/ \E s \in Subjects : DoMatch(s)
    \/ \E m \in states_map : Step(m)
    \/ PassEnd
    \/ MatchUnoptimized
    \/ MatchOpenEnded
    \/ MatchRepeated

Spec == Init /\ [][Next]_vars

\* do_match runs on once called: the loop over the live states and the return
\* from start_match are not suspended forever.
FairSpec ==
    /\ Spec
    /\ WF_vars(\E m \in states_map : Step(m))
    /\ WF_vars(PassEnd)

(***************************************************************************)
(* What the graph can do from a start position, whatever the order of the  *)
(* rounds: the (node, position) pairs some path from node 0 reaches.       *)
(***************************************************************************)
IsTerminal(node) == sg[node + 1].out = None /\ sg[node + 1].out1 = None

\* The (node, position) pairs one transition away from x.
Successors(x) ==
    LET node == sg[x[1] + 1]
        mr == IF IsSome(node.matcher) THEN matcher_matches(Unwrap(node.matcher), subj, x[2])
              ELSE Matched(TRUE, 0)
        to == IF x[2] + mr.n > PosCap THEN PosCap ELSE x[2] + mr.n
    IN IF mr.panic \/ ~mr.ok THEN {}
       ELSE {<<Unwrap(o), to>> : o \in {o \in {node.out, node.out1} : IsSome(o)}}

RECURSIVE Closure(_, _)
Closure(frontier, seen) ==
    LET new == UNION {Successors(x) : x \in frontier} \ seen
    IN IF new = {} THEN seen ELSE Closure(new, seen \cup new)

\* The positions at which some path from node 0 at start reaches the terminal node.
TerminalPositions(start) ==
    {x[2] : x \in {x \in Closure({<<0, start>>}, {<<0, start>>}) : IsTerminal(x[1])}}

\* An anchored pass from start accepts.
Accepts(start) == TerminalPositions(start) # {}

\* The start positions of an unanchored search.
Starts == IF Len(subj) = 0 THEN {0} ELSE 0..(Len(subj) - 1)

Max(S) == CHOOSE x \in S : \A y \in S : y <= x

Returned == pc = "done"

(***************************************************************************)
(* The claims.                                                             *)
(***************************************************************************)
\* C1: do_match returns matched = true if and only if an anchored pass accepts
\* from some start position s (0 <= s < len(subject), or s = 0 for the empty
\* subject), and the match it reports starts at the smallest such s.
C1_CompleteLeftmost ==
    Returned =>
        LET good == {s \in Starts : Accepts(s)}
        IN /\ result.matched <=> good # {}
           /\ result.matched => \A s \in good : i <= s

\* C2: when a pass from start position s accepts, the end of the reported
\* whole-match span is the largest position at which a path from node 0 at s
\* reaches the terminal node.
C2_LongestMatch ==
    (Returned /\ result.matched) =>
        /\ result.list # <<>>
        /\ result.list[1][2] = Max(TerminalPositions(i))

\* C3: whenever do_match returns matched = true, the submatch list is non-empty
\* and its first element is (s, e): the start of the successful pass and the
\* position at which the terminal node was reached.
C3_WholeMatchFirst ==
    (Returned /\ result.matched) =>
        /\ result.list # <<>>
        /\ result.list[1] = <<i, longestmatch>>

RECURSIVE InConcatFragment(_)
\* The pattern is a concatenation of literals, '.' and capture groups of the same.
InConcatFragment(p) ==
    CASE p.t \in {"Char", "Any"} -> TRUE
      [] p.t = "Submatch" -> InConcatFragment(p.p)
      [] p.t = "Concat" -> \A k \in 1..Len(p.ps) : InConcatFragment(p.ps[k])
      [] OTHER -> FALSE

RECURSIVE Width(_)
\* The number of codepoints a pattern of that fragment consumes.
Width(p) ==
    CASE p.t \in {"Char", "Any"} -> 1
      [] p.t = "Submatch" -> Width(p.p)
      [] p.t = "Concat" -> IF p.ps = <<>> THEN 0
                           ELSE Width(Head(p.ps)) + Width(Concat(Tail(p.ps)))

RECURSIVE GroupSpans(_, _)
\* The [start, end) ranges the capture groups of such a pattern consume when the
\* pattern is matched from position at, in the order the groups open.
GroupSpans(p, at) ==
    CASE p.t \in {"Char", "Any"} -> <<>>
      [] p.t = "Submatch" -> <<<<at, at + Width(p.p)>>>> \o GroupSpans(p.p, at)
      [] p.t = "Concat" ->
           IF p.ps = <<>> THEN <<>>
           ELSE GroupSpans(Head(p.ps), at)
                \o GroupSpans(Concat(Tail(p.ps)), at + Width(Head(p.ps)))

\* C4: for a concatenation of literals, '.' and capture groups, a successful
\* do_match returns the whole-match span followed by exactly one span per
\* group, each the range the group consumed, ordered by start, provided no
\* group starts where the whole match or another group starts.
C4_GroupSpans ==
    (Returned /\ result.matched /\ InConcatFragment(ast.pat)) =>
        LET groups == GroupSpans(ast.pat, i)
            starts == <<i>> \o [k \in 1..Len(groups) |-> groups[k][1]]
        IN (\A k, l \in 1..Len(starts) : k # l => starts[k] # starts[l])
               => result.list = <<<<i, i + Width(ast.pat)>>>> \o groups

\* C5: every pass of start_match reaches an empty live set, so do_match, once
\* called, returns.  (An abort is C6's matter, and a pass whose positions
\* left the range the model follows exactly is not judged here.)
C5_Terminates == (pc = "pass") ~> (pc \in {"done", "match_panic"} \/ capped)

\* C6: do_match never aborts: a Char, CharRange or CharSet matcher is evaluated
\* only at a position <= len(subject), and no access leaves the subject or the
\* capture map.
C6_NoAbortInMatch ==
    /\ pc # "match_panic"
    /\ pc = "pass" =>
         \A m \in states_map :
             LET mt == sg[m.node + 1].matcher
             IN (IsSome(mt) /\ Unwrap(mt).m \in {"Char", "CharRange", "CharSet"})
                    => m.pos <= Len(subj)

\* C7: parse never aborts: for every source it returns a Pattern or an error
\* value.
C7_ParseTotal == pc # "parse_panic"

\* C8: every source that parse accepts is compiled by optimize and
\* start_compile without aborting.
C8_CompileTotal == pc # "compile_panic"

(***************************************************************************)
(* The regular language of a pattern: LangEnds(p, s) is the set of e such  *)
(* that subject[s..e] belongs to the language of p.                        *)
(***************************************************************************)
RECURSIVE LangEnds(_, _)
RECURSIVE StarEnds(_, _, _)

\* The ends of p read from any of the positions of from.
EndsFrom(p, from) == UNION {LangEnds(p, s) : s \in from}

\* The ends of zero or more further repetitions of p.
StarEnds(p, frontier, seen) ==
    LET new == EndsFrom(p, frontier) \ seen
    IN IF new = {} THEN seen ELSE StarEnds(p, new, seen \cup new)

LangEnds(p, s) ==
    CASE p.t = "Char" -> IF s < Len(subj) /\ subj[s + 1] = p.c THEN {s + 1} ELSE {}
      [] p.t = "Str" ->
           IF s + Len(p.s) <= Len(subj) /\ SubSeq(subj, s + 1, s + Len(p.s)) = p.s
           THEN {s + Len(p.s)} ELSE {}
      [] p.t = "CharRange" ->
           IF s < Len(subj) /\ Ord(p.lo) <= Ord(subj[s + 1]) /\ Ord(subj[s + 1]) <= Ord(p.hi)
           THEN {s + 1} ELSE {}
      [] p.t = "CharSet" ->
           IF s < Len(subj) /\ (\E k \in 1..Len(p.cs) : p.cs[k] = subj[s + 1])
           THEN {s + 1} ELSE {}
      [] p.t = "Concat" ->
           IF p.ps = <<>> THEN {s}
           ELSE EndsFrom(Concat(Tail(p.ps)), LangEnds(Head(p.ps), s))
      [] p.t = "Alternate" -> UNION {LangEnds(p.ps[k], s) : k \in 1..Len(p.ps)}
      [] p.t = "Submatch" -> LangEnds(p.p, s)
      [] p.t = "Repeated" ->
           CASE p.r.k = "ZeroOrOnce" -> {s} \cup LangEnds(p.r.p, s)
             [] p.r.k = "ZeroOrMore" -> StarEnds(p.r.p, {s}, {s})
             [] p.r.k = "OnceOrMore" ->
                  StarEnds(p.r.p, LangEnds(p.r.p, s), LangEnds(p.r.p, s))

RECURSIVE InRegularFragment(_)
\* The pattern is built from literals, character classes, concatenation,
\* alternation, groups and the operators '?', '*', '+'.
InRegularFragment(p) ==
    CASE p.t \in {"Char", "Str", "CharRange", "CharSet"} -> TRUE
      [] p.t \in {"Concat", "Alternate"} -> \A k \in 1..Len(p.ps) : InRegularFragment(p.ps[k])
      [] p.t = "Submatch" -> InRegularFragment(p.p)
      [] p.t = "Repeated" ->
           /\ p.r.k \in {"ZeroOrOnce", "ZeroOrMore", "OnceOrMore"}
           /\ InRegularFragment(p.r.p)
      [] OTHER -> FALSE

\* start_match is about to return: the live set of the pass is empty.
PassOver == pc = "pass" /\ states_map = {}

\* C9: for a regex built from literals, character classes, concatenation,
\* alternation, groups and '?', '*', '+', a pass from start position s that
\* terminates reports a match if and only if subject[s..e] is in the language
\* of the pattern for some e >= s.
C9_AcceptsLanguage ==
    (PassOver /\ InRegularFragment(re)) => (ismatch <=> LangEnds(re, i) # {})

\* C9 happens: passes over a pattern with an alternation under a repetition, one
\* accepting and one rejecting.
C9_Witness ==
    /\ PassOver /\ InRegularFragment(re)
    /\ src = <<"(", "a", "|", "b", ")", "*", "b">>
    /\ subj = <<"a", "b">>
    /\ ismatch
    /\ longestmatch = 2

RECURSIVE Run(_, _)
\* The number of consecutive copies of the character c in the subject from s on.
Run(c, s) == IF s < Len(subj) /\ subj[s + 1] = c THEN 1 + Run(c, s + 1) ELSE 0

Min(S) == CHOOSE x \in S : \A y \in S : x <= y

\* The pattern is c{n,m} for a character c, with n <= m and m >= 1.
IsBoundedRun(p) ==
    /\ p.t = "Repeated" /\ p.r.k = "Specific"
    /\ p.r.p.t = "Char"
    /\ IsSome(p.r.max)
    /\ p.r.min <= Unwrap(p.r.max) /\ Unwrap(p.r.max) >= 1

\* C10: c{n,m} matches where a run of j >= n copies of c starts, and the
\* whole-match span covers min(j, m) copies, never more than m.
C10_BoundedRepetition ==
    (Returned /\ IsBoundedRun(re)) =>
        LET c == re.r.p.c
            n == re.r.min
            m == Unwrap(re.r.max)
            good == {s \in Starts : Run(c, s) >= n}
            s0 == Min(good)
            j == Run(c, s0)
        IN /\ result.matched <=> good # {}
           /\ result.matched =>
                /\ result.list # <<>>
                /\ result.list[1] = <<s0, s0 + (IF j < m THEN j ELSE m)>>

\* The source is c{n} or c{n,} for a letter c and a digit n.
IsOpenRun(source) ==
    /\ Len(source) \in {4, 5}
    /\ source[1] \in {"a", "b"} /\ source[2] = "{" /\ source[3] \in Digits
    /\ source[Len(source)] = "}"
    /\ Len(source) = 5 => source[4] = ","

\* The first span of a returned list, if there is one.
WholeSpan(r) == IF r.list = <<>> THEN None ELSE Some(r.list[1])

\* C11: P{n} and P{n,} give the same matched flag and the same whole-match span
\* on every subject, and c{n} and c{n,} match exactly where a run of at least n
\* copies of c starts, the span covering the whole run.
C11_ExactCountIsOpenEnded ==
    /\ (call = "open_ended" /\ pc \in {"done", "match_panic", "compile_panic"}) =>
          /\ pc = "done"
          /\ result.matched = Unwrap(earlier).matched
          /\ WholeSpan(result) = WholeSpan(Unwrap(earlier))
    /\ (Returned /\ call # "unoptimized" /\ IsOpenRun(src)) =>
          LET c == src[1]
              n == Ord(src[3]) - 48
              good == {s \in Starts : Run(c, s) >= n}
              s0 == Min(good)
          IN /\ result.matched <=> good # {}
             /\ (result.matched /\ result.list # <<>>) =>
                  result.list[1] = <<s0, s0 + Run(c, s0)>>

C11_Witness ==
    /\ Returned /\ call = "open_ended"
    /\ src = <<"a", "{", "2", ",", "}">>
    /\ subj = <<"a", "a", "a", "b">>
    /\ result = [matched |-> TRUE, list |-> <<<<0, 3>>>>]
    /\ earlier = Some(result)

\* The pattern is the begin anchor, or a sequence whose first element it is.
FirstIsBegin(p) ==
    \/ p = Anchor("Begin")
    \/ p.t = "Concat" /\ p.ps # <<>> /\ p.ps[1] = Anchor("Begin")

\* The pattern is the end anchor, or a sequence whose last element it is.
LastIsEnd(p) ==
    \/ p = Anchor("End")
    \/ p.t = "Concat" /\ p.ps # <<>> /\ p.ps[Len(p.ps)] = Anchor("End")

\* C12: a successful do_match of a regex that begins with the begin anchor
\* reports a whole-match span that starts at 0 (the successful pass is the one
\* from 0), and of a regex that ends with the end anchor one that ends at
\* len(subject).
C12_AnchorsConstrain ==
    (Returned /\ result.matched) =>
        /\ FirstIsBegin(re) =>
              i = 0 /\ result.list # <<>> /\ result.list[1][1] = 0
        /\ LastIsEnd(re) =>
              /\ longestmatch = Len(subj)
              /\ result.list # <<>> /\ result.list[1][2] = Len(subj)

\* C13: do_match starts no pass, and so creates no state, at a position greater
\* than the number of codepoints of the subject.
C13_CodepointPositions ==
    pc = "pass" =>
        /\ i <= Len(subj)
        /\ \A m \in states_map : m.node = 0 => m.pos <= Len(subj)

\* C14: the returned submatch list is strictly increasing by start position, so
\* it holds at most one span per start position.
C14_StrictlyIncreasingStarts ==
    Returned =>
        \A k \in 1..(Len(result.list) - 1) : result.list[k][1] < result.list[k + 1][1]

\* A group that starts where the whole match starts, and a later group: two
\* spans for three pairs of submatch nodes.
C14_Witness ==
    /\ Returned /\ call = "first"
    /\ src = <<"(", "a", ")", "a", "(", "b", ")">>
    /\ subj = <<"a", "a", "b">>
    /\ result = [matched |-> TRUE, list |-> <<<<0, 3>>, <<2, 3>>>>]

\* The number of occurrences of the character c among the first k of the source.
Count(source, c, k) == Cardinality({j \in 1..k : source[j] = c})

\* C15: the error for a stray ')' or ']' carries the zero-based index in the
\* whole source of a character that is this closer and that no opener before
\* it is left open for.
C15_StrayCloserPosition ==
    (pc = "parse_error" /\ ast.msg \in {"unopened ')'", "unopened ']'"}) =>
        LET closer == IF ast.msg = "unopened ')'" THEN ")" ELSE "]"
            opener == IF closer = ")" THEN "(" ELSE "["
        IN /\ IsSome(ast.at)
           /\ Unwrap(ast.at) < Len(src)
           /\ src[Unwrap(ast.at) + 1] = closer
           /\ Count(src, opener, Unwrap(ast.at)) <= Count(src, closer, Unwrap(ast.at))

\* A stray ']' that follows a closed group, right of a '|'.
C15_Witness ==
    /\ pc = "parse_error"
    /\ src = <<"a", "|", "(", "b", ")", "]">>
    /\ ast = Err("unopened ']'", Some(5))

RECURSIVE Anchors(_, _)
\* The number of Anchor(loc) nodes of a pattern.
Anchors(p, loc) ==
    CASE p.t = "Anchor" -> IF p.loc = loc THEN 1 ELSE 0
      [] p.t \in {"Concat", "Alternate"} ->
           LET RECURSIVE Sum(_)
               Sum(k) == IF k = 0 THEN 0 ELSE Sum(k - 1) + Anchors(p.ps[k], loc)
           IN Sum(Len(p.ps))
      [] p.t = "Submatch" -> Anchors(p.p, loc)
      [] p.t = "Repeated" -> Anchors(p.r.p, loc)
      [] OTHER -> 0

\* C16: parse's output holds an Anchor(End) exactly if the last character of the
\* whole source is '$' and an Anchor(Begin) exactly if its first is '^', and then
\* only one; every other '$' or '^' is a literal.
C16_AnchorsAtExtremes ==
    pc \notin {"parse", "parse_error", "parse_panic"} =>
        /\ Anchors(ast.pat, "End") = (IF src[Len(src)] = "$" THEN 1 ELSE 0)
        /\ Anchors(ast.pat, "Begin") = (IF src[1] = "^" THEN 1 ELSE 0)

\* The successors of a node.
Outs(node) ==
    (IF IsSome(node.out) THEN {Unwrap(node.out)} ELSE {})
    \cup (IF IsSome(node.out1) THEN {Unwrap(node.out1)} ELSE {})

\* C17: in a graph start_compile returned, node 0 is a SubmatchStart node
\* without matcher whose first successor is the entry of the pattern, the last
\* node is a SubmatchEnd node and the only node without successor, and every
\* successor is an index into the graph.
C17_GraphWellFormed ==
    pc \in {"ready", "pass", "done", "match_panic"} =>
        LET n == Len(sg)
            entry == to_state(re, <<State(None, None, None, Some("Start"))>>).s
        IN /\ n >= 2
           /\ sg[1].sub = Some("Start") /\ sg[1].matcher = None
           /\ sg[1].out = Some(entry)
           /\ sg[n].sub = Some("End") /\ Outs(sg[n]) = {}
           /\ \A k \in 1..(n - 1) : Outs(sg[k]) # {}
           /\ \A k \in 1..n : Outs(sg[k]) \subseteq 0..(n - 1)

\* The graph of a repeated group of two alternatives followed by a character.
C17_Witness ==
    /\ pc = "ready"
    /\ src = <<"(", "a", "|", "b", ")", "*", "b">>
    /\ Len(sg) >= 8
    /\ \E k \in 1..Len(sg) : Cardinality(Outs(sg[k])) = 2

\* parse returned a pattern.
Parsed == pc \notin {"parse", "parse_error", "parse_panic"}

RECURSIVE NoSelfNesting(_)
\* No Concat of the pattern has a Concat among its children and no Alternate an
\* Alternate.
NoSelfNesting(p) ==
    CASE p.t \in {"Concat", "Alternate"} ->
           \A k \in 1..Len(p.ps) : p.ps[k].t # p.t /\ NoSelfNesting(p.ps[k])
      [] p.t = "Submatch" -> NoSelfNesting(p.p)
      [] p.t = "Repeated" -> NoSelfNesting(p.r.p)
      [] OTHER -> TRUE

\* C19: in the optimized parser output no Concat is a direct child of a Concat
\* and no Alternate a direct child of an Alternate.
C19_OptimizedNormalForm ==
    Parsed => NoSelfNesting(optimize(ast.pat))

\* C20: do_match on the graph of the unoptimized parser output returns what
\* do_match on the graph of the optimized pattern returned for the same subject.
C20_OptimizePreservesResult ==
    (call = "unoptimized" /\ pc \in {"done", "match_panic", "compile_panic"}) =>
        pc = "done" /\ result = Unwrap(earlier)

\* The matchers of the nodes of the graph.
MatchersOf(graph) ==
    {Unwrap(graph[k].matcher) : k \in {j \in 1..Len(graph) : IsSome(graph[j].matcher)}}

\* C21: at every position p with 0 <= p <= len a Char matcher matches iff
\* p < len and subject[p] = c, a Str matcher matches iff p + |s| <= len and
\* subject[p..p+|s|] = s, and the consumed count is 1 for Char and |s| for Str
\* whether or not the matcher matches.
C21_MatcherResults ==
    pc = "pass" =>
        \A mt \in MatchersOf(sg) : \A p \in 0..Len(subj) :
            LET r == matcher_matches(mt, subj, p) IN
            /\ mt.m = "Char" =>
                  /\ ~r.panic /\ r.n = 1
                  /\ r.ok <=> (p < Len(subj) /\ subj[p + 1] = mt.c)
            /\ mt.m = "Str" =>
                  /\ ~r.panic /\ r.n = Len(mt.s)
                  /\ r.ok <=> /\ p + Len(mt.s) <= Len(subj)
                               /\ \A k \in 1..Len(mt.s) : subj[p + k] = mt.s[k]

\* The Str matcher of `ab` has matched at position 1 of `aab` and the state has
\* moved on by 2; at position 0 it failed and at 2 it would reach past the end.
C21_Witness ==
    /\ pc = "pass" /\ call = "first"
    /\ src = <<"a", "b">> /\ subj = <<"a", "a", "b">>
    /\ StringMatcher(<<"a", "b">>) \in MatchersOf(sg)
    /\ i = 1
    /\ \E m \in states_map : m.pos = 3

\* A set of live states holds at most one state per key.
OnePerKey(map) == \A x, y \in map : state_key(x) = state_key(y) => x = y

\* C22: the set of the next round, and so the set of every round, holds at most
\* one live state per (position, node) key, and a state scheduled for the next
\* round stays the state of its key: a later successor with the same key does
\* not replace it.
C22_DuplicateSuppression ==
    /\ [](OnePerKey(states_map) /\ OnePerKey(states_map_next))
    /\ [][(pc = "pass" /\ pc' = "pass") =>
             \A x \in states_map_next : x \in states_map_next' \cup states_map']_vars

\* A round of `a?(a?)` on `ab`: the path that took the group's `a?` (group
\* started at 0) and the path that took the first `a?` (group started at 1) both
\* scheduled the node after the group's `a?` at position 1.  The second path
\* also scheduled the group's `a` node, so three successors at position 1 were
\* scheduled and two states are held, the one of the first path among them.
C22_Witness ==
    /\ pc = "pass" /\ call = "first"
    /\ src = <<"a", "?", "(", "a", "?", ")">> /\ subj = <<"a", "b">>
    /\ i = 0 /\ states_map_next = {}
    /\ Cardinality({m \in states_map : m.pos = 1}) = 2
    /\ \E x, y \in states_map :
          /\ x.pos = 1 /\ x.todo = <<0, 0>>
          /\ y.pos = 1 /\ y.todo = <<0, 1>>

\* The live states of the pass.
Live == states_map \cup states_map_next

\* C23: a state that records a span changes no capture map but its own: when a
\* step of a pass writes to the capture Vec, no other live state holds that Vec.
C23_CaptureIsolation ==
    [][(pc = "pass" /\ pc' = "pass" /\ states_map # {} /\ submatches' # submatches) =>
           Cardinality(Live) = 1]_vars

\* C24: no (position, node) key is drained in more than one round of a pass: a
\* state waiting in states_map has a key that no state drained earlier in the
\* pass had.
C24_NoKeyTwice ==
    pc = "pass" => \A m \in states_map : state_key(m) \notin drained

\* C25: in every round the number of live states is at most the number of nodes
\* of the graph.
C25_LiveStateBound ==
    pc = "pass" =>
        /\ Cardinality(states_map) <= Len(sg)
        /\ Cardinality(states_map_next) <= Len(sg)

\* The furthest position any state of the pass was drained at.
Furthest == Max({k[1] : k \in drained})

\* C26: after a failed pass from s whose states got as far as f the next pass
\* starts at max(s + 1, f + 1), which is beyond s and beyond f, and do_match
\* starts at most len(subject) + 1 passes.
C26_StartAdvance ==
    /\ [][(pc = "pass" /\ pc' = "pass" /\ states_map = {}) =>
             /\ i' = Max({i + 1, Furthest + 1})
             /\ i' > i /\ i' > Furthest]_vars
    /\ [](passes <= Len(subj) + 1)

\* C27: on a non-empty subject do_match returns (false, []) only when the start
\* position it would try next is beyond len(subject), so that the pass from
\* len(subject) has been run if the cursor took that value.
C27_TriesEveryStart ==
    (Returned /\ ~result.matched /\ Len(subj) > 0) =>
        NextStart(i, longest_partial_match) > Len(subj)

\* C28: within a pass, once a terminal state has been recorded as the best match
\* at position p, a step that leaves the best position at p (a terminal state of
\* a later round at the same p, or any other state) leaves the recorded capture
\* snapshot as it was, for every p, 0 included.
C28_TiesKeepFirst ==
    [][(pc = "pass" /\ pc' = "pass" /\ ismatch /\ states_map # {}
           /\ longestmatch' = longestmatch) => matches' = matches]_vars

\* C29: do_match on the same graph and subject returns the same matched flag and
\* the same submatch list whatever the order in which the states of each round
\* are drained: a repeated call returns what the earlier call returned.
C29_Determinism ==
    (Returned /\ call = "repeated") => result = Unwrap(earlier)

\* C30: every span (start, end) that do_match returns lies within the subject:
\* 0 <= start <= end <= len(subject).
C30_SpanBounds ==
    Returned =>
        \A k \in 1..Len(result.list) :
            /\ 0 <= result.list[k][1]
            /\ result.list[k][1] <= result.list[k][2]
            /\ result.list[k][2] <= Len(subj)

=============================================================================
